---- MODULE Spec2Model ----
(***************************************************************************)
(* A model of EvaluateCloudFormationTemplate                               *)
(* (packages/aws-cdk/lib/api/hotswap/evaluate-cloudformation-template.ts). *)
(*                                                                         *)
(* JavaScript values are tagged records [t, v]; strings are TLA+ strings,  *)
(* arrays are sequences of values, objects are ordered sequences of        *)
(* [k, e] entries (own properties) over Object.prototype.                  *)
(*                                                                         *)
(* Every call of an async function is a task, named by its path in the     *)
(* call tree (<<>> is the caller's evaluateCfnExpression call).  The event *)
(* loop is modelled as it runs: continuations wait in a FIFO queue (runq)  *)
(* and run to their next await one at a time; a listStackResources() call  *)
(* is I/O, which completes, in any order, only when the queue is empty.    *)
(***************************************************************************)
EXTENDS Integers, Sequences, FiniteSets, TLC

(***************************************************************************)
(* Bounds of the model.                                                    *)
(***************************************************************************)
\* longest array expression handed to evaluateCfnExpression
MaxSeqLen == 2
\* largest index handed to Fn::Select
MaxIndex == 3
\* evaluateCfnExpression calls made by the caller on one instance
MaxRuns == 2
\* listStackResources() calls that the collaborator may fail in one run
MaxIoFailures == 1

(***************************************************************************)
(* JavaScript values.                                                      *)
(***************************************************************************)
Undef == [t |-> "undefined", v |-> ""]
Null == [t |-> "null", v |-> ""]
Str(s) == [t |-> "string", v |-> s]
Num(n) == [t |-> "number", v |-> n]
Arr(xs) == [t |-> "array", v |-> xs]
Obj(es) == [t |-> "object", v |-> es]
\* a built-in function object, such as Object.prototype.toString
Func(name) == [t |-> "function", v |-> name]



\* the properties every plain object inherits that the model keeps
ObjectPrototype == {"toString", "constructor"}

Min(a, b) == IF a < b THEN a ELSE b

\* str.substring(from - 1, to) with 1-based inclusive positions, clamped
Sub(s, from, to) ==
  IF from > Min(to, Len(s)) THEN "" ELSE SubSeq(s, from, Min(to, Len(s)))

StartsWith(s, pre) == Len(s) >= Len(pre) /\ Sub(s, 1, Len(pre)) = pre

\* the least position >= from where sub occurs in s, 0 when there is none
IndexOf(s, sub, from) ==
  LET hits == {i \in from..(Len(s) - Len(sub) + 1) : Sub(s, i, i + Len(sub) - 1) = sub}
  IN IF hits = {} THEN 0 ELSE CHOOSE i \in hits : \A j \in hits : i <= j

Digits == <<"0", "1", "2", "3", "4", "5", "6", "7", "8", "9">>

RECURSIVE NatToString(_)
NatToString(n) ==
  IF n < 10 THEN Digits[n + 1] ELSE NatToString(n \div 10) \o Digits[(n % 10) + 1]

RECURSIVE JsString(_)
RECURSIVE JoinFrom(_, _, _)
\* xs.slice(i - 1).join(sep): null and undefined elements give ""
JoinFrom(xs, sep, i) ==
  IF i > Len(xs) THEN ""
  ELSE (IF xs[i].t \in {"null", "undefined"} THEN "" ELSE JsString(xs[i]))
       \o (IF i < Len(xs) THEN sep ELSE "")
       \o JoinFrom(xs, sep, i + 1)

\* String(x), as a template literal and Array.prototype.join apply it
JsString(x) ==
  CASE x.t = "string" -> x.v
    [] x.t = "number" -> NatToString(x.v)
    [] x.t = "null" -> "null"
    [] x.t = "undefined" -> "undefined"
    [] x.t = "array" -> JoinFrom(x.v, ",", 1)
    [] x.t = "object" -> "[object Object]"
    [] x.t = "function" -> "function " \o x.v \o "() { [native code] }"
    [] OTHER -> "Error"

\* x ? .. : ..
Truthy(x) ==
  CASE x.t = "string" -> x.v # ""
    [] x.t = "number" -> x.v # 0
    [] x.t \in {"null", "undefined"} -> FALSE
    [] OTHER -> TRUE

\* Array.prototype.join(separator)
ArrayJoin(xs, sep) == JoinFrom(xs, IF sep.t = "undefined" THEN "," ELSE JsString(sep), 1)

RECURSIVE SplitStr(_, _)
\* s.split(sep) for a string separator
SplitStr(s, sep) ==
  IF sep = ""
  THEN [i \in 1..Len(s) |-> Sub(s, i, i)]
  ELSE LET at == IndexOf(s, sep, 1)
       IN IF at = 0 THEN <<s>>
          ELSE <<Sub(s, 1, at - 1)>> \o SplitStr(Sub(s, at + Len(sep), Len(s)), sep)

\* String.prototype.split(separator), as a sequence of strings
StringSplit(s, sep) == IF sep.t = "undefined" THEN <<s>> ELSE SplitStr(s, JsString(sep))

Upper == "ABCDEFGHIJKLMNOPQRSTUVWXYZ"
Lower == "abcdefghijklmnopqrstuvwxyz"

RECURSIVE ToLowerCase(_)
\* String.prototype.toLowerCase()
ToLowerCase(s) ==
  IF s = "" THEN ""
  ELSE LET c == Sub(s, 1, 1)
           at == IndexOf(Upper, c, 1)
       IN (IF at = 0 THEN c ELSE Sub(Lower, at, at)) \o ToLowerCase(Sub(s, 2, Len(s)))

\* Object.keys(x) of an object
Keys(x) == [i \in 1..Len(x.v) |-> x.v[i].k]

\* Object.prototype.hasOwnProperty.call(x, key) of an object
HasOwn(x, key) == \E i \in 1..Len(x.v) : x.v[i].k = key

\* the array index a property key names, -1 when it names none
ArrayIndex(key, len) ==
  LET hits == {i \in 0..(len - 1) : NatToString(i) = key}
  IN IF hits = {} THEN -1 ELSE CHOOSE i \in hits : TRUE

\* key in x, for an object, an array or a function: own properties, then the
\* prototype chain
In(key, x) ==
  \/ x.t = "object" /\ HasOwn(x, key)
  \/ x.t = "array" /\ ArrayIndex(key, Len(x.v)) >= 0
  \/ key \in ObjectPrototype

\* x[key]: own properties (of an object, an array, a string), then the
\* prototype chain
Get(x, key) ==
  CASE x.t = "object" /\ HasOwn(x, key) ->
         x.v[CHOOSE i \in 1..Len(x.v) : x.v[i].k = key].e
    [] x.t = "array" /\ ArrayIndex(key, Len(x.v)) >= 0 ->
         x.v[ArrayIndex(key, Len(x.v)) + 1]
    [] x.t = "string" /\ ArrayIndex(key, Len(x.v)) >= 0 ->
         Str(Sub(x.v, ArrayIndex(key, Len(x.v)) + 1, ArrayIndex(key, Len(x.v)) + 1))
    [] OTHER -> IF key \in ObjectPrototype THEN Func(key) ELSE Undef

\* { ...x, [key]: val }: an own property keeps its place, a new one goes last
Put(x, key, val) ==
  IF HasOwn(x, key)
  THEN Obj([i \in 1..Len(x.v) |-> IF x.v[i].k = key THEN [k |-> key, e |-> val] ELSE x.v[i]])
  ELSE Obj(Append(x.v, [k |-> key, e |-> val]))

RECURSIVE Spread(_, _, _)
\* { ...x, ...y } from y's i-th property on
Spread(x, y, i) == IF i > Len(y.v) THEN x ELSE Spread(Put(x, y.v[i].k, y.v[i].e), y, i + 1)

(***************************************************************************)
(* Exceptions.  The source throws CfnEvaluationException with a message;   *)
(* the kind names the throw site, a and b the names the message reports.   *)
(***************************************************************************)
Error(kind, a, b) == [t |-> "exception", v |-> <<kind, a, b>>]
\* line 50: CloudFormation function <name> is not supported
UnsupportedIntrinsic(name) == Error("UnsupportedIntrinsic", name, "")
\* line 78: Parameter or resource '<logicalId>' could not be found;
\* line 88: Attribute '<attribute>' of resource '<logicalId>' could not be found
UnresolvedReference(logicalId, attribute) == Error("UnresolvedReference", logicalId, attribute)
\* line 176: We don't support attributes of the '<type>' resource
UnsupportedResourceKind(type) == Error("UnsupportedResourceKind", type, "")
\* line 181: We don't support the '<attribute>' attribute of the '<type>' resource
UnsupportedAttribute(type, attribute) == Error("UnsupportedAttribute", type, attribute)
\* what the runtime throws for a call or a property read on a value without it
TypeError == Error("TypeError", "", "")
\* the rejection of a listStackResources() call
ListStackResourcesError == Error("ListStackResourcesError", "", "")

IsError(x) == x.t = "exception"

(***************************************************************************)
(* The identifier formats (lines 205-235).                                 *)
(***************************************************************************)
ArnParts(partition, service, region, account, resourceType, resourceName) ==
  [partition |-> partition, service |-> service, region |-> region,
   account |-> account, resourceType |-> resourceType, resourceName |-> resourceName]

iamArnFmt(parts) ==
  "arn:" \o parts.partition \o ":" \o parts.service \o "::" \o parts.account
    \o ":" \o parts.resourceType \o "/" \o parts.resourceName

\* the mutant of s3ArnFmt: the shape every other service has
s3ArnFmtStandard(parts) ==
  "arn:" \o parts.partition \o ":" \o parts.service \o ":" \o parts.region
    \o ":" \o parts.account \o ":" \o parts.resourceType \o ":" \o parts.resourceName

s3ArnFmt(parts) ==
  "arn:" \o parts.partition \o ":" \o parts.service \o ":::" \o parts.resourceName

stdColonResourceArnFmt(parts) ==
  "arn:" \o parts.partition \o ":" \o parts.service \o ":" \o parts.region
    \o ":" \o parts.account \o ":" \o parts.resourceType \o ":" \o parts.resourceName

Fmt(name) == Obj(<<[k |-> "Arn", e |-> Func(name)]>>)

RESOURCE_TYPE_ATTRIBUTES_FORMATS ==
  Obj(<<[k |-> "AWS::IAM::Role", e |-> Fmt("iamArnFmt")],
        [k |-> "AWS::IAM::User", e |-> Fmt("iamArnFmt")],
        [k |-> "AWS::IAM::Group", e |-> Fmt("iamArnFmt")],
        [k |-> "AWS::S3::Bucket", e |-> Fmt("s3ArnFmt")],
        [k |-> "AWS::Lambda::Function", e |-> Fmt("stdColonResourceArnFmt")]>>)

\* attributeFmtFunc(parts): the call of whatever the table lookup gave.
\* Object.prototype.toString is called with no receiver (strict mode) and
\* Object as a function returns its argument.
CallFmt(f, parts) ==
  CASE f.v = "iamArnFmt" -> Str(iamArnFmt(parts))
    [] f.v = "s3ArnFmt" -> Str(s3ArnFmt(parts))
    [] f.v = "stdColonResourceArnFmt" -> Str(stdColonResourceArnFmt(parts))
    [] f.v = "toString" -> Str("[object Undefined]")
    [] f.v = "constructor" ->
         Obj(<<[k |-> "partition", e |-> Str(parts.partition)],
               [k |-> "service", e |-> Str(parts.service)],
               [k |-> "region", e |-> Str(parts.region)],
               [k |-> "account", e |-> Str(parts.account)],
               [k |-> "resourceType", e |-> Str(parts.resourceType)],
               [k |-> "resourceName", e |-> Str(parts.resourceName)]>>)
    [] OTHER -> TypeError

(***************************************************************************)
(* The resource resolver (lines 155-202).  A stack resource is a record    *)
(* [LogicalResourceId, PhysicalResourceId, ResourceType] of strings.       *)
(***************************************************************************)
\* resource.ResourceType.split('::')[i - 1], undefined past the end
TypeSegment(resource, i) ==
  LET segs == SplitStr(resource.ResourceType, "::")
  IN IF i <= Len(segs) THEN Str(segs[i]) ELSE Undef

getServiceOfResource(resource) ==
  LET seg == TypeSegment(resource, 2)
  IN IF seg.t = "string" THEN Str(ToLowerCase(seg.v)) ELSE TypeError

getResourceTypeArnPartOfResource(resource) ==
  LET seg == TypeSegment(resource, 3)
  IN IF seg.t = "string" THEN Str(ToLowerCase(seg.v)) ELSE TypeError

\* formatResourceAttribute of an instance with this partition, region, account
formatResourceAttribute(self, resource, attribute) ==
  IF ~Truthy(attribute) THEN Str(resource.PhysicalResourceId)
  ELSE LET resourceTypeFormats == Get(RESOURCE_TYPE_ATTRIBUTES_FORMATS, resource.ResourceType)
           attributeFmtFunc == Get(resourceTypeFormats, JsString(attribute))
           service == getServiceOfResource(resource)
           resourceTypeArnPart == getResourceTypeArnPartOfResource(resource)
       IN CASE ~Truthy(resourceTypeFormats) -> UnsupportedResourceKind(resource.ResourceType)
            [] Truthy(resourceTypeFormats) /\ ~Truthy(attributeFmtFunc) ->
                 UnsupportedAttribute(resource.ResourceType, JsString(attribute))
            [] OTHER ->
                 IF IsError(service) \/ IsError(resourceTypeArnPart) THEN TypeError
                 ELSE CallFmt(attributeFmtFunc,
                              ArnParts(self.partition, service.v, self.region, self.account,
                                       resourceTypeArnPart.v, resource.PhysicalResourceId))

\* stackResources.find(sr => sr.LogicalResourceId === logicalId): the index of
\* the first match, 0 when there is none (=== never holds for a non-string)
FindResource(stackResources, logicalId) ==
  LET hits == {i \in 1..Len(stackResources) :
                 logicalId.t = "string" /\ stackResources[i].LogicalResourceId = logicalId.v}
  IN IF hits = {} THEN 0 ELSE CHOOSE i \in hits : \A j \in hits : i <= j

\* findGetAttTarget once listStackResources() has returned stackResources
findGetAttTarget(self, stackResources, logicalId, attribute) ==
  LET at == FindResource(stackResources, logicalId)
  IN IF at = 0 THEN Undef ELSE formatResourceAttribute(self, stackResources[at], attribute)

(***************************************************************************)
(* Intrinsics (lines 46-108, 134-143).                                     *)
(***************************************************************************)
Intrinsic(name, args) == [t |-> "intrinsic", v |-> <<name, args>>]

\* parseIntrinsic(x) of an object x
parseIntrinsic(x) ==
  LET keys == Keys(x)
  IN IF Len(keys) = 1 /\ (StartsWith(keys[1], "Fn::") \/ keys[1] = "Ref")
     THEN Intrinsic(keys[1], Get(x, keys[1]))
     ELSE Undef

\* the methods of class CfnIntrinsics
Handlers == {"Fn::Join", "Fn::Split", "Fn::Select", "Ref", "Fn::GetAtt", "Fn::Sub"}

\* the mutant of CfnIntrinsicsMember: the name is matched whatever its case
CfnIntrinsicsMemberAnyCase(name) ==
  LET named == {h \in {"Fn::Join", "Fn::Split", "Fn::Select", "Ref", "Fn::GetAtt", "Fn::Sub"} :
                  ToLowerCase(h) = ToLowerCase(name)}
  IN IF named = {} THEN Undef ELSE Func(CHOOSE h \in named : TRUE)

\* (this as any)[name] of a CfnIntrinsics instance: its class's methods, then
\* what it inherits
CfnIntrinsicsMember(name) ==
  IF name \in Handlers \cup {"evaluateIntrinsic"} \cup ObjectPrototype THEN Func(name) ELSE Undef

\* Array.isArray(intrinsic.args) ? intrinsic.args : [intrinsic.args]
ArgsAsArray(args) == IF args.t = "array" THEN args.v ELSE <<args>>

\* the i-th parameter of a call with these arguments
Arg(args, i) == IF i <= Len(args) THEN args[i] ELSE Undef

\* evaluatedArgs.join(separator)
FnJoinResult(separator, evaluatedArgs) ==
  IF evaluatedArgs.t = "array" THEN Str(ArrayJoin(evaluatedArgs.v, separator)) ELSE TypeError

\* evaluatedArgs.split(separator)
FnSplitResult(separator, evaluatedArgs) ==
  IF evaluatedArgs.t = "string"
  THEN LET parts == StringSplit(evaluatedArgs.v, separator)
       IN Arr([i \in 1..Len(parts) |-> Str(parts[i])])
  ELSE TypeError

\* evaluatedArgs[index]
FnSelectResult(index, evaluatedArgs) ==
  IF evaluatedArgs.t \in {"null", "undefined"} THEN TypeError
  ELSE Get(evaluatedArgs, JsString(index))

\* the Ref handler's answer to what findRefTarget returned (lines 75-79)
RefResult(logicalId, refTarget) ==
  CASE IsError(refTarget) -> refTarget
    [] ~IsError(refTarget) /\ Truthy(refTarget) -> refTarget
    [] OTHER -> UnresolvedReference(JsString(logicalId), "")

\* the Fn::GetAtt handler's answer to what findGetAttTarget returned (lines 85-89)
GetAttResult(logicalId, attributeName, attrValue) ==
  CASE IsError(attrValue) -> attrValue
    [] ~IsError(attrValue) /\ Truthy(attrValue) -> attrValue
    [] OTHER -> UnresolvedReference(JsString(logicalId), JsString(attributeName))

\* the mutant of SubCall: the attribute is the second segment alone
SubCallSecondSegment(key) ==
  LET splitKey == SplitStr(key, ".")
  IN IF Len(splitKey) = 1
     THEN [fn |-> "Ref", args |-> <<Str(key)>>]
     ELSE [fn |-> "Fn::GetAtt", args |-> <<Str(splitKey[1]), Str(splitKey[2])>>]

\* the callback of Fn::Sub for a key outside the placeholders (lines 101-104):
\* the handler it calls and the arguments
SubCall(key) ==
  LET splitKey == SplitStr(key, ".")
  IN IF Len(splitKey) = 1
     THEN [fn |-> "Ref", args |-> <<Str(key)>>]
     ELSE [fn |-> "Fn::GetAtt",
           args |-> <<Str(splitKey[1]),
                      Str(JoinFrom([i \in 1..(Len(splitKey) - 1) |-> Str(splitKey[i + 1])], ".", 1))>>]

\* regex.exec(str) of /\${([^}]*)}/g with regex.lastIndex = from - 1: the match
\* nearest the front, index = 0 when there is none (positions count from 1)
RegexExec(str, from) ==
  LET opens == {i \in from..Len(str) : Sub(str, i, i + 1) = "${" /\ IndexOf(str, "}", i + 2) # 0}
  IN IF opens = {} THEN [index |-> 0, key |-> "", lastIndex |-> from]
     ELSE LET i == CHOOSE o \in opens : \A j \in opens : o <= j
              close == IndexOf(str, "}", i + 2)
          IN [index |-> i, key |-> Sub(str, i + 2, close - 1), lastIndex |-> close + 1]

(***************************************************************************)
(* The state.                                                              *)
(***************************************************************************)
VARIABLES
  self,           \* the instance: context, account, region, partition
  inventory,      \* what the collaborator's listStackResources() resolves to
  cfnExpression,  \* the expression the caller hands to evaluateCfnExpression
  tasks,          \* the calls of the run in progress, by path in the call tree
  runq,           \* the continuations ready to run, first in first out
  ioLog,          \* the listStackResources() calls of the run, as they completed
  ioFailures,     \* how many of them the collaborator failed
  outcomes        \* what the caller's earlier calls settled to

vars == <<self, inventory, cfnExpression, tasks, runq, ioLog, ioFailures, outcomes>>

Root == <<>>
Parent(p) == SubSeq(p, 1, Len(p) - 1)

\* a call of fn(...args); expr is the expression of an evaluateCfnExpression call
NewTask(fn, args, expr) ==
  [fn |-> fn, args |-> args, expr |-> expr, pc |-> "start", res |-> Undef,
   n |-> 0, acc |-> <<>>, ph |-> Undef, start |-> 1, last |-> 1, keys |-> <<>>,
   io |-> 0, via |-> ""]

NewEval(expr) == NewTask("evaluateCfnExpression", <<expr>>, expr)

\* queue entries: run task from its pc; tell task that its child has settled
Run(p) == [kind |-> "run", task |-> p, child |-> p]
Settled(p) == [kind |-> "settled", task |-> Parent(p), child |-> p]
Notify(p) == IF p = Root THEN <<>> ELSE <<Settled(p)>>

Pending(t) == t.pc \notin {"fulfilled", "rejected"}
Resolve(t, value) == [t EXCEPT !.pc = "fulfilled", !.res = value]
Reject(t, error) == [t EXCEPT !.pc = "rejected", !.res = error]
\* return r, or throw it when it is an exception
Complete(t, r) == IF IsError(r) THEN Reject(t, r) ELSE Resolve(t, r)

\* the mutant of Rejected: the failure is caught and taken for the value
RejectedNever(child) == FALSE

\* await child: whether it throws
Rejected(child) == child.pc = "rejected"

\* the head of the queue runs task fn at pc / resumes it there from an await
Running(fn, pc) ==
  /\ runq # <<>>
  /\ Head(runq).kind = "run"
  /\ tasks[Head(runq).task].fn = fn
  /\ tasks[Head(runq).task].pc = pc

Resumed(fn, pc) ==
  /\ runq # <<>>
  /\ Head(runq).kind = "settled"
  /\ tasks[Head(runq).task].fn = fn
  /\ tasks[Head(runq).task].pc = pc

\* the task settles as t: its promise's reaction is queued
Finish(p, t) ==
  /\ tasks' = [tasks EXCEPT ![p] = t]
  /\ runq' = Tail(runq) \o Notify(p)

\* the task calls child (an async function runs at once, up to its first await)
\* and awaits it as t
Call(p, t, c, child) ==
  /\ tasks' = (c :> child) @@ [tasks EXCEPT ![p] = t]
  /\ runq' = <<Run(c)>> \o Tail(runq)

\* the task goes on at once as t
Continue(p, t) ==
  /\ tasks' = [tasks EXCEPT ![p] = t]
  /\ UNCHANGED runq

(***************************************************************************)
(* The constructor (lines 25-37).                                          *)
(***************************************************************************)
Constructed(props) ==
  [context |-> Spread(Obj(<<[k |-> "AWS::AccountId", e |-> Str(props.account)],
                            [k |-> "AWS::Region", e |-> Str(props.region)],
                            [k |-> "AWS::Partition", e |-> Str(props.partition)],
                            [k |-> "AWS::URLSuffix", e |-> Str(props.urlSuffix)]>>),
                      props.parameters, 1),
   account |-> props.account,
   region |-> props.region,
   partition |-> props.partition]

(***************************************************************************)
(* The inputs the model draws from.                                        *)
(***************************************************************************)
Props(parameters) ==
  [account |-> "12", region |-> "eu", partition |-> "aws", urlSuffix |-> "com",
   parameters |-> parameters]

\* Foo is a parameter only, Empty a parameter with the empty value, MyBucket
\* a parameter and a resource
ParameterSets ==
  {Obj(<<[k |-> "Foo", e |-> Str("bar")],
         [k |-> "Empty", e |-> Str("")],
         [k |-> "MyBucket", e |-> Str("shadow")]>>)}

StackResource(logicalId, physicalId, type) ==
  [LogicalResourceId |-> logicalId, PhysicalResourceId |-> physicalId, ResourceType |-> type]

\* one resource of every registered type, one of a type that is not, and a
\* second record named MyRole
Inventories ==
  {<<StackResource("MyRole", "r1", "AWS::IAM::Role"),
     StackResource("MyUser", "u1", "AWS::IAM::User"),
     StackResource("MyGroup", "g1", "AWS::IAM::Group"),
     StackResource("MyBucket", "b1", "AWS::S3::Bucket"),
     StackResource("MyFn", "f1", "AWS::Lambda::Function"),
     StackResource("MyQueue", "q1", "AWS::SQS::Queue"),
     StackResource("MyRole", "r2", "AWS::S3::Bucket")>>}

Fn(name, args) == Obj(<<[k |-> name, e |-> args]>>)
RefOf(logicalId) == Fn("Ref", Str(logicalId))
GetAttOf(logicalId, attribute) == Fn("Fn::GetAtt", Arr(<<Str(logicalId), Str(attribute)>>))

RefIds == {"Foo", "Empty", "MyBucket", "MyRole", "MyQueue", "Missing", "Nope", "AWS::Region"}
GetAttIds == {"MyRole", "MyUser", "MyGroup", "MyBucket", "MyFn", "MyQueue", "Missing"}
Attributes == {"Arn", "Nope", "", "toString"}

Lists ==
  {Arr(<<Str("x"), Str("y"), Str("z")>>),
   Arr(<<RefOf("Foo"), RefOf("MyRole")>>),
   RefOf("Foo")}

\* intrinsic names outside the registry
UnsupportedNames == {"Fn::If", "Fn::", "Fn::join", "Fn::evaluateIntrinsic"}

SubExpressions ==
  {Fn("Fn::Sub", Arr(<<Str("Hello ${Name}"), Obj(<<[k |-> "Name", e |-> Str("World")]>>)>>)),
   Fn("Fn::Sub", Str("arn:${AWS::Partition}:${AWS::AccountId}")),
   Fn("Fn::Sub", Str("${MyRole}-${MyFn.Arn}")),
   Fn("Fn::Sub", Str("${MyFn.Arn.x}")),
   Fn("Fn::Sub", Str("${Missing}x${Nope}")),
   Fn("Fn::Sub", Arr(<<Str("a${MyRole}b${Name}c${MyUser.Arn}${Q.a.b}"),
                       Obj(<<[k |-> "Name", e |-> RefOf("MyQueue")],
                             [k |-> "Q.a.b", e |-> Str("q")]>>)>>)),
   Fn("Fn::Sub", Arr(<<Str("${Name}"), Obj(<<[k |-> "Name", e |-> RefOf("Missing")]>>)>>)),
   Fn("Fn::Sub", Str("no markers")),
   Fn("Fn::Sub", Str("<${toString}>")),
   Fn("Fn::Sub", Str("x${unclosed")),
   Fn("Fn::Sub", Str("${a${Foo}$}${Foo}}")),
   Fn("Fn::Sub", Arr(<<Str("${Foo}"), Str("notAMapping")>>)),
   Fn("Fn::Sub", Null)}

\* the elements of the arrays the model evaluates
Elements ==
  {Str("lit"), RefOf("Foo"), RefOf("Missing"), RefOf("Nope"), GetAttOf("MyBucket", "Arn")}

ArraysUpTo(n) == UNION {{Arr(xs) : xs \in [1..k -> Elements]} : k \in 0..n}

Expressions ==
  {Null, Undef, Str("plain"), Num(7)}
  \cup {RefOf(id) : id \in RefIds}
  \cup {GetAttOf(id, a) : id \in GetAttIds, a \in Attributes}
  \cup {Fn("Fn::Select", Arr(<<Num(i), list>>)) : i \in 0..MaxIndex, list \in Lists}
  \cup {Fn("Fn::Join", Arr(<<Str(","), list>>)) : list \in Lists}
  \cup {Fn("Fn::Split", Arr(<<Str(","), v>>)) : v \in {Str("a,b,c"), RefOf("Foo"), RefOf("Missing"), Null}}
  \cup {Fn(name, Arr(<<RefOf("MyRole")>>)) : name \in UnsupportedNames}
  \cup SubExpressions
  \cup ArraysUpTo(MaxSeqLen)
  \cup {Arr(<<Arr(<<RefOf("MyRole"), RefOf("MyFn")>>), RefOf("MyQueue")>>),
        Arr(<<Fn("Fn::If", Str("a")), Fn("Fn::Sub", Str("${MyRole}${MyFn}"))>>),
        Obj(<<>>),
        Obj(<<[k |-> "a", e |-> RefOf("MyRole")], [k |-> "b", e |-> Str("lit")]>>),
        Obj(<<[k |-> "a", e |-> RefOf("Missing")], [k |-> "b", e |-> RefOf("MyRole")]>>),
        Obj(<<[k |-> "toString", e |-> Arr(<<RefOf("MyFn"), RefOf("Nope")>>)]>>),
        Obj(<<[k |-> "Ref", e |-> Str("MyRole")], [k |-> "Fn::Join", e |-> Null]>>)}

(***************************************************************************)
(* Init: an instance has been constructed; nothing runs.                   *)
(***************************************************************************)
Init ==
  /\ self \in {Constructed(Props(parameters)) : parameters \in ParameterSets}
  /\ inventory \in Inventories
  /\ cfnExpression \in Expressions
  /\ tasks = <<>>
  /\ runq = <<>>
  /\ ioLog = <<>>
  /\ ioFailures = 0
  /\ outcomes = <<>>

RECURSIVE Before(_, _)
\* path p is before path q in the order the calls were made (depth first)
Before(p, q) ==
  IF p = <<>> \/ q = <<>> THEN p = <<>> /\ q # <<>>
  ELSE IF Head(p) = Head(q) THEN Before(Tail(p), Tail(q)) ELSE Head(p) < Head(q)

\* the listStackResources() calls completed in the order they were made
InCallOrder(log) == \A i, j \in 1..Len(log) : i < j => Before(log[i], log[j])

(***************************************************************************)
(* The caller.                                                             *)
(***************************************************************************)
\* the caller calls evaluateCfnExpression(cfnExpression)
Evaluate ==
  /\ DOMAIN tasks = {}
  /\ Len(outcomes) < MaxRuns
  /\ tasks' = (Root :> NewEval(cfnExpression))
  /\ runq' = <<Run(Root)>>
  /\ UNCHANGED <<self, inventory, cfnExpression, ioLog, ioFailures, outcomes>>

\* the caller has the outcome of its call, and nothing of the run is in flight
Return ==
  /\ DOMAIN tasks # {}
  /\ runq = <<>>
  /\ ~Pending(tasks[Root])
  /\ \A p \in DOMAIN tasks : tasks[p].pc # "listStackResources"
  /\ outcomes' = Append(outcomes, [pc |-> tasks[Root].pc, res |-> tasks[Root].res,
                                   ioFailed |-> ioFailures > 0,
                                   ioInOrder |-> InCallOrder(ioLog)])
  /\ tasks' = <<>>
  /\ ioLog' = <<>>
  /\ ioFailures' = 0
  /\ UNCHANGED <<self, inventory, cfnExpression, runq>>

(***************************************************************************)
(* evaluateCfnExpression (lines 44-132).                                   *)
(***************************************************************************)
\* lines 110-112 and 131: null, undefined and scalars are returned as they are
EvalScalar ==
  /\ Running("evaluateCfnExpression", "start")
  /\ LET p == Head(runq).task
         t == tasks[p]
     IN /\ t.expr.t \notin {"array", "object"}
        /\ Finish(p, Resolve(t, t.expr))
  /\ UNCHANGED <<self, inventory, cfnExpression, ioLog, ioFailures, outcomes>>

\* lines 114-116: every element's evaluation is called, in order, and
\* Promise.all awaits them
EvalArray ==
  /\ Running("evaluateCfnExpression", "start")
  /\ LET p == Head(runq).task
         t == tasks[p]
         n == Len(t.expr.v)
     IN /\ t.expr.t = "array"
        /\ IF n = 0
           THEN Finish(p, Resolve(t, Arr(<<>>)))
           ELSE /\ tasks' = [q \in {p \o <<i>> : i \in 1..n} |-> NewEval(t.expr.v[q[Len(q)]])]
                            @@ [tasks EXCEPT ![p].pc = "Promise.all",
                                             ![p].acc = [i \in 1..n |-> Undef]]
                /\ runq' = [i \in 1..n |-> Run(p \o <<i>>)] \o Tail(runq)
  /\ UNCHANGED <<self, inventory, cfnExpression, ioLog, ioFailures, outcomes>>

\* the mutant of PromiseAllStore: the values in the order they arrive
PromiseAllPush(acc, i, n, value) == [acc EXCEPT ![n + 1] = value]

\* Promise.all's result array once the i-th promise has fulfilled with value,
\* n others having fulfilled before it
PromiseAllStore(acc, i, n, value) == [acc EXCEPT ![i] = value]

\* line 115, Promise.all: the first rejection rejects it, the last fulfilment
\* fulfils it with the values in the order of the promises
PromiseAll ==
  /\ Resumed("evaluateCfnExpression", "Promise.all")
  /\ LET p == Head(runq).task
         c == Head(runq).child
         t == tasks[p]
         u == [t EXCEPT !.acc = PromiseAllStore(t.acc, c[Len(c)], t.n, tasks[c].res),
                      !.n = t.n + 1]
     IN IF Rejected(tasks[c])
        THEN Finish(p, Reject(t, tasks[c].res))
        ELSE IF u.n = Len(t.expr.v)
             THEN Finish(p, Resolve(u, Arr(u.acc)))
             ELSE /\ tasks' = [tasks EXCEPT ![p] = u]
                  /\ runq' = Tail(runq)
  /\ UNCHANGED <<self, inventory, cfnExpression, ioLog, ioFailures, outcomes>>

\* a promise settles after Promise.all has rejected: nothing awaits it
PromiseAllDone ==
  /\ runq # <<>>
  /\ Head(runq).kind = "settled"
  /\ ~Pending(tasks[Head(runq).task])
  /\ runq' = Tail(runq)
  /\ UNCHANGED <<self, inventory, cfnExpression, tasks, ioLog, ioFailures, outcomes>>

\* lines 118-121 and 47-56: an intrinsic is looked up by name among the members
\* of CfnIntrinsics and applied to its arguments
EvalIntrinsic ==
  /\ Running("evaluateCfnExpression", "start")
  /\ LET p == Head(runq).task
         t == tasks[p]
     IN /\ t.expr.t = "object"
        /\ parseIntrinsic(t.expr).t = "intrinsic"
        /\ LET intrinsic == parseIntrinsic(t.expr)
               intrinsicFunc == CfnIntrinsicsMember(intrinsic.v[1])
           IN IF ~Truthy(intrinsicFunc)
              THEN Finish(p, Reject(t, UnsupportedIntrinsic(intrinsic.v[1])))
              ELSE Continue(p, [t EXCEPT !.fn = intrinsicFunc.v,
                                         !.via = intrinsicFunc.v,
                                         !.args = ArgsAsArray(intrinsic.v[2])])
  /\ UNCHANGED <<self, inventory, cfnExpression, ioLog, ioFailures, outcomes>>

\* lines 122-128: the values of a plain object are evaluated one after another
EvalObject ==
  /\ Running("evaluateCfnExpression", "start")
  /\ LET p == Head(runq).task
         t == tasks[p]
     IN /\ t.expr.t = "object"
        /\ parseIntrinsic(t.expr).t # "intrinsic"
        /\ IF Len(t.expr.v) = 0
           THEN Finish(p, Resolve(t, Obj(<<>>)))
           ELSE Call(p, [t EXCEPT !.pc = "entries", !.n = 1],
                     p \o <<1>>, NewEval(t.expr.v[1].e))
  /\ UNCHANGED <<self, inventory, cfnExpression, ioLog, ioFailures, outcomes>>

\* line 125: ret[key] = await ..., then the next entry
ObjectEntry ==
  /\ Resumed("evaluateCfnExpression", "entries")
  /\ LET p == Head(runq).task
         c == Head(runq).child
         t == tasks[p]
         u == [t EXCEPT !.acc = Put(Obj(t.acc), t.expr.v[t.n].k, tasks[c].res).v,
                      !.n = t.n + 1]
     IN IF Rejected(tasks[c])
        THEN Finish(p, Reject(t, tasks[c].res))
        ELSE IF t.n = Len(t.expr.v)
             THEN Finish(p, Resolve(u, Obj(u.acc)))
             ELSE Call(p, u, p \o <<u.n>>, NewEval(t.expr.v[u.n].e))
  /\ UNCHANGED <<self, inventory, cfnExpression, ioLog, ioFailures, outcomes>>

(***************************************************************************)
(* The handlers of CfnIntrinsics (lines 58-107).                           *)
(***************************************************************************)
\* const evaluatedArgs = await self.evaluateCfnExpression(args)
EvaluateArgs(fn) ==
  /\ Running(fn, "start")
  /\ LET p == Head(runq).task
     IN Call(p, [tasks[p] EXCEPT !.pc = "args"], p \o <<1>>, NewEval(Arg(tasks[p].args, 2)))

\* what each handler returns from its first argument and evaluatedArgs
HandlerResult(fn, first, evaluatedArgs) ==
  CASE fn = "Fn::Join" -> FnJoinResult(first, evaluatedArgs)
    [] fn = "Fn::Split" -> FnSplitResult(first, evaluatedArgs)
    [] fn = "Fn::Select" -> FnSelectResult(first, evaluatedArgs)

\* the handler goes on with evaluatedArgs and returns its result
ReturnWith(fn) ==
  /\ Resumed(fn, "args")
  /\ LET p == Head(runq).task
         c == Head(runq).child
         t == tasks[p]
     IN IF Rejected(tasks[c])
        THEN Finish(p, Reject(t, tasks[c].res))
        ELSE Finish(p, Complete(t, HandlerResult(fn, Arg(t.args, 1), tasks[c].res)))

\* lines 58-61
FnJoin ==
  /\ \/ EvaluateArgs("Fn::Join")
     \/ ReturnWith("Fn::Join")
  /\ UNCHANGED <<self, inventory, cfnExpression, ioLog, ioFailures, outcomes>>

\* lines 63-66
FnSplit ==
  /\ \/ EvaluateArgs("Fn::Split")
     \/ ReturnWith("Fn::Split")
  /\ UNCHANGED <<self, inventory, cfnExpression, ioLog, ioFailures, outcomes>>

\* lines 68-71
FnSelect ==
  /\ \/ EvaluateArgs("Fn::Select")
     \/ ReturnWith("Fn::Select")
  /\ UNCHANGED <<self, inventory, cfnExpression, ioLog, ioFailures, outcomes>>

\* await this.stackResources.listStackResources(): the call goes out
ListStackResources(p) ==
  /\ tasks' = [tasks EXCEPT ![p].pc = "listStackResources", ![p].io = @ + 1]
  /\ runq' = Tail(runq)

\* lines 73-80 with findRefTarget (lines 145-153): a parameter with a truthy
\* value is the answer, anything else is looked for among the stack resources
Ref ==
  /\ Running("Ref", "start")
  /\ LET p == Head(runq).task
         t == tasks[p]
         logicalId == Arg(t.args, 1)
         parameterTarget == Get(self.context, JsString(logicalId))
     IN IF Truthy(parameterTarget)
        THEN Finish(p, Complete(t, RefResult(logicalId, parameterTarget)))
        ELSE ListStackResources(p)
  /\ UNCHANGED <<self, inventory, cfnExpression, ioLog, ioFailures, outcomes>>

\* lines 82-84 with findGetAttTarget (line 156)
FnGetAtt ==
  /\ Running("Fn::GetAtt", "start")
  /\ ListStackResources(Head(runq).task)
  /\ UNCHANGED <<self, inventory, cfnExpression, ioLog, ioFailures, outcomes>>

\* what the handler waiting in listStackResources() returns once the call
\* has resolved to stackResources (lines 157-163, then 75-79 or 85-89)
AfterListStackResources(t, stackResources) ==
  IF t.fn = "Ref"
  THEN RefResult(Arg(t.args, 1),
                 findGetAttTarget(self, stackResources, Arg(t.args, 1), Undef))
  ELSE GetAttResult(Arg(t.args, 1), Arg(t.args, 2),
                    findGetAttTarget(self, stackResources, Arg(t.args, 1), Arg(t.args, 2)))

\* a listStackResources() call resolves: I/O completes when nothing is ready
ListStackResourcesReturn(p) ==
  /\ runq = <<>>
  /\ tasks[p].pc = "listStackResources"
  /\ tasks' = [tasks EXCEPT ![p] = Complete(tasks[p], AfterListStackResources(tasks[p], inventory))]
  /\ runq' = Notify(p)
  /\ ioLog' = Append(ioLog, p)
  /\ UNCHANGED <<self, inventory, cfnExpression, ioFailures, outcomes>>

\* a listStackResources() call rejects: the await throws
ListStackResourcesFail(p) ==
  /\ runq = <<>>
  /\ tasks[p].pc = "listStackResources"
  /\ ioFailures < MaxIoFailures
  /\ tasks' = [tasks EXCEPT ![p] = Reject(tasks[p], ListStackResourcesError)]
  /\ runq' = Notify(p)
  /\ ioLog' = Append(ioLog, p)
  /\ ioFailures' = ioFailures + 1
  /\ UNCHANGED <<self, inventory, cfnExpression, outcomes>>

\* lines 93-95: the explicit placeholders are evaluated first
FnSub ==
  /\ \/ /\ Running("Fn::Sub", "start")
        /\ LET p == Head(runq).task
               t == tasks[p]
               explicitPlaceholders == Arg(t.args, 2)
           IN IF Truthy(explicitPlaceholders)
              THEN Call(p, [t EXCEPT !.pc = "placeholders"], p \o <<0>>,
                        NewEval(explicitPlaceholders))
              ELSE Continue(p, [t EXCEPT !.pc = "scan", !.ph = Obj(<<>>)])
     \/ /\ Resumed("Fn::Sub", "placeholders")
        /\ LET p == Head(runq).task
               c == Head(runq).child
               t == tasks[p]
           IN IF Rejected(tasks[c])
              THEN Finish(p, Reject(t, tasks[c].res))
              ELSE /\ tasks' = [tasks EXCEPT ![p] = [t EXCEPT !.pc = "scan", !.ph = tasks[c].res]]
                   /\ runq' = <<Run(p)>> \o Tail(runq)
  /\ UNCHANGED <<self, inventory, cfnExpression, ioLog, ioFailures, outcomes>>

\* the mutant of AwaitCallback: the loop goes on without waiting for child
AwaitCallbackNot(p, child) == [pc |-> "scan", ready |-> <<Run(child), Run(p)>>]

\* ret.push(await cb(match[1])) when cb has called a handler: the loop waits
\* for child, which runs now
AwaitCallback(p, child) == [pc |-> "cb", ready |-> <<Run(child)>>]

\* asyncGlobalReplace (lines 242-259) with the callback of Fn::Sub (lines
\* 97-106): one match of the regex per turn of the loop
AsyncGlobalReplace ==
  /\ \/ /\ Running("Fn::Sub", "scan")
        /\ LET p == Head(runq).task
               t == tasks[p]
               str == Arg(t.args, 1)
           IN IF str.t # "string"
              THEN Finish(p, Reject(t, TypeError))
              ELSE LET match == RegexExec(str.v, t.last)
                       key == match.key
                       ret == Append(t.acc, Str(Sub(str.v, t.start, match.index - 1)))
                       u == [t EXCEPT !.n = t.n + 1, !.keys = Append(t.keys, key),
                                      !.last = match.lastIndex]
                       c == p \o <<u.n>>
                   IN IF match.index = 0
                      THEN Finish(p, Resolve(t, Str(JoinFrom(
                             Append(t.acc, Str(Sub(str.v, t.start, Len(str.v)))), "", 1))))
                      ELSE IF t.ph.t \notin {"object", "array", "function"}
                      THEN Finish(p, Reject([u EXCEPT !.acc = ret], TypeError))
                      ELSE IF In(key, t.ph)
                      THEN /\ tasks' = [tasks EXCEPT ![p] =
                                          [u EXCEPT !.acc = Append(ret, Get(t.ph, key)),
                                                    !.start = match.lastIndex]]
                           /\ runq' = Tail(runq) \o <<Run(p)>>
                      ELSE /\ tasks' = (c :> NewTask(SubCall(key).fn, SubCall(key).args, Undef))
                                       @@ [tasks EXCEPT ![p] =
                                             [u EXCEPT !.acc = ret, !.pc = AwaitCallback(p, c).pc]]
                           /\ runq' = AwaitCallback(p, c).ready \o Tail(runq)
     \/ /\ Resumed("Fn::Sub", "cb")
        /\ LET p == Head(runq).task
               c == Head(runq).child
               t == tasks[p]
           IN IF Rejected(tasks[c])
              THEN Finish(p, Reject(t, tasks[c].res))
              ELSE /\ tasks' = [tasks EXCEPT ![p] =
                                  [t EXCEPT !.acc = Append(t.acc, tasks[c].res),
                                            !.start = t.last, !.pc = "scan"]]
                   /\ runq' = <<Run(p)>> \o Tail(runq)
  /\ UNCHANGED <<self, inventory, cfnExpression, ioLog, ioFailures, outcomes>>

Next ==
  \/ Evaluate
  \/ Return
  \/ EvalScalar
  \/ EvalArray
  \/ PromiseAll
  \/ PromiseAllDone
  \/ EvalIntrinsic
  \/ EvalObject
  \/ ObjectEntry
  \/ FnJoin
  \/ FnSplit
  \/ FnSelect
  \/ Ref
  \/ FnGetAtt
  \/ FnSub
  \/ AsyncGlobalReplace
  \/ \E p \in DOMAIN tasks : ListStackResourcesReturn(p)
  \/ \E p \in DOMAIN tasks : ListStackResourcesFail(p)

Spec == Init /\ [][Next]_vars

(***************************************************************************)
(* What the properties below speak of.                                     *)
(***************************************************************************)
Paths == DOMAIN tasks
IsSettled(p) == ~Pending(tasks[p])
IsFulfilled(p) == tasks[p].pc = "fulfilled"
IsRejected(p) == tasks[p].pc = "rejected"
Children(p) == {q \in Paths : q # Root /\ Parent(q) = p}
IsPrefix(p, q) == Len(p) <= Len(q) /\ SubSeq(q, 1, Len(p)) = p
Descendants(p) == {q \in Paths : q # p /\ IsPrefix(p, q)}
\* the collaborator failed the task's own listStackResources() call
IoFailed(p) == tasks[p].res = ListStackResourcesError

\* a settled call of the Ref handler on a string whose lookup, if any, resolved
RefCalls ==
  {p \in Paths : /\ tasks[p].fn = "Ref" /\ IsSettled(p) /\ ~IoFailed(p)
                 /\ Len(tasks[p].args) = 1 /\ tasks[p].args[1].t = "string"}

\* a settled call of the Fn::GetAtt handler on two strings whose lookup resolved
GetAttCalls ==
  {p \in Paths : /\ tasks[p].fn = "Fn::GetAtt" /\ IsSettled(p) /\ ~IoFailed(p)
                 /\ Len(tasks[p].args) = 2
                 /\ tasks[p].args[1].t = "string" /\ tasks[p].args[2].t = "string"}

\* the inventory records named logicalId, by position
Records(logicalId) ==
  {i \in 1..Len(inventory) : inventory[i].LogicalResourceId = logicalId}
FirstRecord(logicalId) ==
  inventory[CHOOSE i \in Records(logicalId) : \A j \in Records(logicalId) : i <= j]

\* the Parameter Context's own keys
ContextKeys == {self.context.v[i].k : i \in 1..Len(self.context.v)}
ContextValue(key) ==
  self.context.v[CHOOSE i \in 1..Len(self.context.v) : self.context.v[i].k = key].e

FailedWith(p, kind) == IsRejected(p) /\ tasks[p].res.v[1] = kind

(***************************************************************************)
(* C1: Ref yields the Parameter Context's value for every key of the       *)
(* context, whatever the value; for any other logicalId the physicalId of  *)
(* the first inventory record of that name; and fails with                 *)
(* UnresolvedReference when neither has it.                                *)
(***************************************************************************)
C1_RefResolves ==
  \A p \in RefCalls :
    LET logicalId == tasks[p].args[1].v
    IN CASE logicalId \in ContextKeys ->
              IsFulfilled(p) /\ tasks[p].res = ContextValue(logicalId)
         [] logicalId \notin ContextKeys /\ Records(logicalId) # {} ->
              IsFulfilled(p) /\ tasks[p].res = Str(FirstRecord(logicalId).PhysicalResourceId)
         [] OTHER ->
              FailedWith(p, "UnresolvedReference") /\ tasks[p].res.v[2] = logicalId

(***************************************************************************)
(* C2: Fn::GetAtt of a registered attribute of a record of a registered    *)
(* kind returns the kind's identifier shape, literally: no region for IAM  *)
(* roles, users and groups, the name alone for S3 buckets, the full form   *)
(* for Lambda functions.                                                   *)
(***************************************************************************)
RegisteredKinds ==
  {"AWS::IAM::Role", "AWS::IAM::User", "AWS::IAM::Group", "AWS::S3::Bucket",
   "AWS::Lambda::Function"}
RegisteredAttributes == {"Arn"}

\* the lower-cased 2nd and 3rd segments of the registered kinds
ServiceOf(kind) ==
  CASE kind \in {"AWS::IAM::Role", "AWS::IAM::User", "AWS::IAM::Group"} -> "iam"
    [] kind = "AWS::S3::Bucket" -> "s3"
    [] kind = "AWS::Lambda::Function" -> "lambda"
KindTagOf(kind) ==
  CASE kind = "AWS::IAM::Role" -> "role"
    [] kind = "AWS::IAM::User" -> "user"
    [] kind = "AWS::IAM::Group" -> "group"
    [] kind = "AWS::S3::Bucket" -> "bucket"
    [] kind = "AWS::Lambda::Function" -> "function"

ExpectedArn(record) ==
  LET kind == record.ResourceType
      name == record.PhysicalResourceId
  IN CASE kind \in {"AWS::IAM::Role", "AWS::IAM::User", "AWS::IAM::Group"} ->
            "arn:" \o self.partition \o ":" \o ServiceOf(kind) \o "::" \o self.account
              \o ":" \o KindTagOf(kind) \o "/" \o name
       [] kind = "AWS::S3::Bucket" ->
            "arn:" \o self.partition \o ":" \o ServiceOf(kind) \o ":::" \o name
       [] kind = "AWS::Lambda::Function" ->
            "arn:" \o self.partition \o ":" \o ServiceOf(kind) \o ":" \o self.region
              \o ":" \o self.account \o ":" \o KindTagOf(kind) \o ":" \o name

\* the calls C2 is about
RegisteredGetAttCalls ==
  {p \in GetAttCalls : /\ Records(tasks[p].args[1].v) # {}
                       /\ FirstRecord(tasks[p].args[1].v).ResourceType \in RegisteredKinds
                       /\ tasks[p].args[2].v \in RegisteredAttributes}

\* C2: Fn::GetAtt of a record of a registered kind with a registered attribute
\* returns exactly the ARN of that kind's format, built from the session and the record
C2_GetAttFormats ==
  \A p \in RegisteredGetAttCalls :
    IsFulfilled(p) /\ tasks[p].res = Str(ExpectedArn(FirstRecord(tasks[p].args[1].v)))

\* a Fn::GetAtt of the bucket's Arn has returned the S3 format
C2_Witness ==
  \E p \in RegisteredGetAttCalls :
    /\ IsFulfilled(p)
    /\ FirstRecord(tasks[p].args[1].v).ResourceType = "AWS::S3::Bucket"
    /\ tasks[p].res = Str("arn:aws:s3:::b1")

(***************************************************************************)
(* C3: resolution with an attribute fails closed: UnresolvedReference      *)
(* without a record, else UnsupportedResourceKind for a kind outside the   *)
(* table, else UnsupportedAttribute for an attribute the kind does not     *)
(* register; without an attribute the physicalId is returned whatever the  *)
(* kind.  (The empty attribute of Fn::GetAtt is read here as no attribute.)*)
(***************************************************************************)
C3_FailsClosed ==
  /\ \A p \in GetAttCalls :
       LET logicalId == tasks[p].args[1].v
           attribute == tasks[p].args[2].v
       IN CASE Records(logicalId) = {} ->
                 FailedWith(p, "UnresolvedReference") /\ tasks[p].res.v[2] = logicalId
            [] Records(logicalId) # {} /\ attribute = "" ->
                 IsFulfilled(p) /\ tasks[p].res = Str(FirstRecord(logicalId).PhysicalResourceId)
            [] Records(logicalId) # {} /\ attribute # ""
                 /\ FirstRecord(logicalId).ResourceType \notin RegisteredKinds ->
                 /\ FailedWith(p, "UnsupportedResourceKind")
                 /\ tasks[p].res.v[2] = FirstRecord(logicalId).ResourceType
            [] Records(logicalId) # {} /\ attribute # ""
                 /\ FirstRecord(logicalId).ResourceType \in RegisteredKinds
                 /\ attribute \notin RegisteredAttributes ->
                 /\ FailedWith(p, "UnsupportedAttribute")
                 /\ tasks[p].res.v[2] = FirstRecord(logicalId).ResourceType
                 /\ tasks[p].res.v[3] = attribute
            [] OTHER -> TRUE
  /\ \A p \in RefCalls :
       LET logicalId == tasks[p].args[1].v
       IN (tasks[p].io > 0 /\ Records(logicalId) # {}) =>
            IsFulfilled(p) /\ tasks[p].res = Str(FirstRecord(logicalId).PhysicalResourceId)

(***************************************************************************)
(* C4: Fn::Select returns the element at index when 0 <= index < length    *)
(* and fails when index is out of those bounds; it never completes with    *)
(* an absent value.                                                        *)
(***************************************************************************)
\* the settled Fn::Select calls with a number for an index whose list
\* evaluated to an array
SelectCalls ==
  {p \in Paths : /\ tasks[p].fn = "Fn::Select" /\ IsSettled(p)
                 /\ Len(tasks[p].args) = 2 /\ tasks[p].args[1].t = "number"
                 /\ (p \o <<1>>) \in Paths /\ IsFulfilled(p \o <<1>>)
                 /\ tasks[p \o <<1>>].res.t = "array"}

\* C4: Fn::Select returns the element at index when 0 <= index < length and
\* fails otherwise; it never fulfils with undefined
C4_SelectInRange ==
  \A p \in SelectCalls :
    LET index == tasks[p].args[1].v
        list == tasks[p \o <<1>>].res.v
    IN IF 0 <= index /\ index < Len(list)
       THEN IsFulfilled(p) /\ tasks[p].res = list[index + 1]
       ELSE IsRejected(p)

(***************************************************************************)
(* C5: a successful Fn::Sub returns the template with every ${key} marker, *)
(* left to right and not overlapping, replaced by the explicit placeholder *)
(* of that key, else by Ref(key) when key has no '.', else by              *)
(* Fn::GetAtt(before the first '.', all after it); the text between and    *)
(* around the markers is kept, each substitution at its marker's place.    *)
(***************************************************************************)
RECURSIVE TemplateMarkers(_, _)
\* the markers of template s from position i on: where each starts and ends,
\* and its key
TemplateMarkers(s, i) ==
  IF i > Len(s) THEN <<>>
  ELSE LET closes == {j \in (i + 2)..Len(s) : Sub(s, j, j) = "}"}
       IN IF Sub(s, i, i + 1) = "${" /\ closes # {}
          THEN LET j == CHOOSE c \in closes : \A d \in closes : c <= d
               IN <<[at |-> i, end |-> j, key |-> Sub(s, i + 2, j - 1)]>>
                    \o TemplateMarkers(s, j + 1)
          ELSE TemplateMarkers(s, i + 1)

\* the Fn::Sub calls on a template string
SubCalls == {p \in Paths : tasks[p].fn = "Fn::Sub" /\ Arg(tasks[p].args, 1).t = "string"}
Markers(p) == TemplateMarkers(tasks[p].args[1].v, 1)

\* the evaluated explicit placeholder mapping of Fn::Sub call p
Explicit(p) == IF (p \o <<0>>) \in Paths THEN tasks[p \o <<0>>].res ELSE Obj(<<>>)
IsExplicit(p, key) == Explicit(p).t = "object" /\ HasOwn(Explicit(p), key)

\* the text a value contributes to the result
Text(value) == IF value.t \in {"null", "undefined"} THEN "" ELSE JsString(value)

\* what marker k of Fn::Sub call p is replaced by: the explicit placeholder,
\* or what the Ref or Fn::GetAtt call made for it returned (a Ref of a name the
\* context answers at once needs no call)
Substitution(p, k) ==
  LET key == Markers(p)[k].key
  IN IF IsExplicit(p, key) THEN Get(Explicit(p), key)
     ELSE IF (p \o <<k>>) \in Paths THEN tasks[p \o <<k>>].res
     ELSE RefResult(Str(key), Get(self.context, key))

RECURSIVE Substituted(_, _, _)
\* the template of p from position i on, markers k, k + 1, ... replaced
Substituted(p, k, i) ==
  LET s == tasks[p].args[1].v
      ms == Markers(p)
  IN IF k > Len(ms) THEN Sub(s, i, Len(s))
     ELSE Sub(s, i, ms[k].at - 1) \o Text(Substitution(p, k)) \o Substituted(p, k + 1, ms[k].end + 1)

ArrayCalls == {p \in Paths : tasks[p].expr.t = "array"}

\* C6: a fulfilled evaluation of an array has the array's length and holds at
\* position i the evaluation of element i, whatever the completion order
C6_SequenceOrder ==
  \A p \in ArrayCalls :
    LET n == Len(tasks[p].expr.v)
    IN /\ \A c \in Children(p) : c[Len(c)] \in 1..n /\ tasks[c].expr = tasks[p].expr.v[c[Len(c)]]
       /\ (IsSettled(p) /\ \A c \in Children(p) : IsFulfilled(c)) =>
            /\ IsFulfilled(p)
            /\ tasks[p].res.t = "array"
            /\ Len(tasks[p].res.v) = n
            /\ \A i \in 1..n : (p \o <<i>>) \in Paths /\ tasks[p].res.v[i] = tasks[p \o <<i>>].res

\* two elements with different values, the second's lookup completing first
C6_Witness ==
  \E p \in ArrayCalls :
    /\ IsFulfilled(p)
    /\ Len(tasks[p].res.v) = 2
    /\ tasks[p].res.v[1] # tasks[p].res.v[2]
    /\ \E i, j \in 1..Len(ioLog) : i < j /\ IsPrefix(p \o <<2>>, ioLog[i]) /\ IsPrefix(p \o <<1>>, ioLog[j])

(***************************************************************************)
(* C7: a Mapping whose single key is Ref or starts with Fn:: and names no  *)
(* registered intrinsic fails with UnsupportedIntrinsic(name): nothing is  *)
(* invoked through the lookup, no argument is evaluated, the inventory is  *)
(* not called.                                                             *)
(***************************************************************************)
RegisteredIntrinsics == {"Ref", "Fn::GetAtt", "Fn::Join", "Fn::Split", "Fn::Select", "Fn::Sub"}

\* the evaluateCfnExpression calls on such a Mapping
UnsupportedCalls ==
  {p \in Paths : /\ tasks[p].expr.t = "object"
                 /\ Len(tasks[p].expr.v) = 1
                 /\ LET name == tasks[p].expr.v[1].k
                    IN /\ name = "Ref" \/ (Len(name) >= 4 /\ SubSeq(name, 1, 4) = "Fn::")
                       /\ name \notin RegisteredIntrinsics}

\* C7: an intrinsic name outside the six registered ones fails with
\* UnsupportedIntrinsic(name): no argument is evaluated, no lookup is made
C7_UnsupportedIntrinsic ==
  \A p \in UnsupportedCalls :
    /\ tasks[p].fn = "evaluateCfnExpression"
    /\ tasks[p].via = ""
    /\ tasks[p].io = 0
    /\ Descendants(p) = {}
    /\ tasks[p].pc \in {"start", "rejected"}
    /\ IsRejected(p) => tasks[p].res = UnsupportedIntrinsic(tasks[p].expr.v[1].k)

\* an unsupported intrinsic whose arguments hold an intrinsic has been rejected
C7_Witness ==
  \E p \in UnsupportedCalls :
    /\ IsRejected(p)
    /\ tasks[p].expr.v[1].e = Arr(<<RefOf("MyRole")>>)

(***************************************************************************)
(* C8: no failure is swallowed or defaulted: when a sub-evaluation at any  *)
(* depth fails, or a call of the inventory collaborator fails, the         *)
(* top-level call fails; no call returns a value over a failed part.       *)
(***************************************************************************)
C8_ErrorsPropagate ==
  /\ \A p \in Paths : IsFulfilled(p) =>
       /\ ~IsError(tasks[p].res)
       /\ \A q \in Descendants(p) : IsFulfilled(q)
  /\ \A p \in Paths : IsRejected(p) => IsError(tasks[p].res)
  /\ (Root \in Paths /\ IsSettled(Root) /\ (ioFailures > 0 \/ \E q \in Paths : IsRejected(q))) =>
       IsRejected(Root)

\* the collaborator has failed a lookup two levels down, beside an element
\* that succeeded, and the top-level call has failed with that failure
C8_Witness ==
  /\ Root \in Paths
  /\ IsRejected(Root)
  /\ tasks[Root].res = ListStackResourcesError
  /\ \E q \in Paths : Len(q) >= 2 /\ IoFailed(q)
  /\ \E q \in Paths : Len(q) >= 2 /\ IsFulfilled(q)

(***************************************************************************)
(* C9: evaluation is deterministic and free of side effects: with the      *)
(* context and the inventory fixed, any two runs on the same expression    *)
(* end in the same outcome, the same value or the same failure, whatever   *)
(* the completion order, and no run changes the context, the inventory or  *)
(* the expression.                                                         *)
(***************************************************************************)
\* the step leaves the instance, the inventory and the expression as they were
InputsUnchanged ==
  /\ self' = self
  /\ inventory' = inventory
  /\ cfnExpression' = cfnExpression

\* the runs in which the collaborator delivered the inventory every time
Delivered == {i \in 1..Len(outcomes) : ~outcomes[i].ioFailed}

\* as claimed: the same value, or the same failure
SameOutcomes ==
  \A i, j \in Delivered :
    outcomes[i].pc = outcomes[j].pc /\ outcomes[i].res = outcomes[j].res

AgreeingOutcomes ==
  \A i, j \in Delivered :
    /\ outcomes[i].pc = outcomes[j].pc
    /\ outcomes[i].pc = "fulfilled" => outcomes[i].res = outcomes[j].res

Resolutions(p) == {c \in Children(p) : c[Len(c)] >= 1}
MarkerKeys(p) == [k \in 1..Len(Markers(p)) |-> Markers(p)[k].key]

\* C10: the placeholders of one Fn::Sub are resolved one at a time in textual
\* order, after the explicit mapping is evaluated, each exactly once on success
C10_OneAtATime ==
  \A p \in SubCalls :
    /\ Cardinality({c \in Resolutions(p) : Pending(tasks[c])}) <= 1
    /\ \A c \in Resolutions(p) :
         /\ Len(tasks[p].keys) >= c[Len(c)]
         /\ \A d \in Resolutions(p) : d[Len(d)] < c[Len(c)] => IsSettled(d)
    /\ (tasks[p].keys # <<>> /\ Truthy(Arg(tasks[p].args, 2))) =>
         /\ (p \o <<0>>) \in Paths
         /\ IsFulfilled(p \o <<0>>)
         /\ \A q \in Descendants(p \o <<0>>) : IsFulfilled(q)
    /\ Len(tasks[p].keys) <= Len(Markers(p))
    /\ tasks[p].keys = SubSeq(MarkerKeys(p), 1, Len(tasks[p].keys))
    /\ IsFulfilled(p) => tasks[p].keys = MarkerKeys(p)

\* the mapping has been evaluated with a lookup, the first placeholder's lookup
\* has completed and the third's is in flight
C10_Witness ==
  \E p \in SubCalls :
    /\ (p \o <<0>>) \in Paths /\ IsFulfilled(p \o <<0>>)
    /\ \E q \in Descendants(p \o <<0>>) : tasks[q].io = 1
    /\ (p \o <<1>>) \in Paths /\ IsFulfilled(p \o <<1>>) /\ tasks[p \o <<1>>].io = 1
    /\ (p \o <<3>>) \in Paths /\ tasks[p \o <<3>>].pc = "listStackResources"
    /\ tasks[p].keys = <<"MyRole", "Name", "MyUser.Arn">>

====
